---- MODULE Spec2Model ----
(***************************************************************************)
(* PowerPath 100: the adaptive question-serving engine of                  *)
(* src/src/game/powerpath.ts (class PowerPath100), as a state machine.     *)
(*                                                                         *)
(* The engine's fields are the variables; each public operation is one     *)
(* action.  Math.random() is a nondeterministic choice.  Date.now() (the   *)
(* fields startTime, timestamp, elapsedTimeMs) is left out: no operation   *)
(* reads a time to decide anything but the formatted elapsed time.         *)
(*                                                                         *)
(* Ten callers drive the engine:                                           *)
(*   Spec         any caller: any id, any operation, short histories;      *)
(*   SpecDeep     any caller over an engine with empty pools (so the only  *)
(*                ids are ids of no pool), long histories;                 *)
(*   SpecSession  a caller that answers the question it was just served    *)
(*                and resets only when no question is served;              *)
(*   SpecCompare  any caller, who keeps the outcome of one earlier         *)
(*                recordAnswer call to compare later calls with;           *)
(*   SpecLong     a caller on a streak (correct answers, then incorrect    *)
(*                ones only) who reads the state, very long histories;     *)
(*   SpecPools    a caller who constructs the engine over any quiz pool,   *)
(*                handed over as it is or converted from the game format,  *)
(*                and keeps the questions it handed over;                  *)
(*   SpecWaterfall  any caller over a quiz pool whose later tiers hold     *)
(*                the approved question, very short histories;             *)
(*   SpecLive     a caller that keeps taking a question and recording an   *)
(*                answer for it, and after a few answers only correct      *)
(*                ones, scheduled fairly;                                  *)
(*   SpecGuiding  the caller of SpecSession over guiding pools of 11 and   *)
(*                of 12 questions;                                         *)
(*   SpecShell    the game shell (SpaceReadingGame): the learner's         *)
(*                select, confirm and close-feedback events.               *)
(***************************************************************************)
EXTENDS Integers, Sequences, FiniteSets, TLC

VARIABLES
    guidingQuestions,       \* PowerPath100.guidingQuestions
    quizQuestions,          \* PowerPath100.quizQuestions (normalized)
    score,                  \* PowerPath100.score
    questionsAnswered,      \* PowerPath100.questionsAnswered
    correctAnswers,         \* PowerPath100.correctAnswers
    currentAttempt,         \* PowerPath100.currentAttempt
    allQuestionHistory,     \* PowerPath100.allQuestionHistory
    currentAttemptHistory,  \* PowerPath100.currentAttemptHistory
    currentGuidingIndex,    \* PowerPath100.currentGuidingIndex (0-based)
    op,                     \* the operation called last
    questionId,             \* recordAnswer's first argument in that call
    wasCorrect,             \* recordAnswer's second argument in that call
    before,                 \* the engine's counters when it was called
    served,                 \* what the last getNextQuestion returned
    scoreChange,            \* what the last recordAnswer returned
    onStatsUpdate,          \* PowerPath100.onStatsUpdate: the observer registered
    notified,               \* the engine's counters at each observer call of that call
    raised,                 \* whether that call ended with the observer's exception
    memo                    \* SpecCompare: an earlier recordAnswer call, kept;
                            \* SpecPools: the questions handed over, kept;
                            \* SpecShell: the fields of the game shell

engine == <<score, questionsAnswered, correctAnswers, currentAttempt,
            allQuestionHistory, currentAttemptHistory, currentGuidingIndex>>
pools == <<guidingQuestions, quizQuestions>>
vars == <<guidingQuestions, quizQuestions, score, questionsAnswered,
          correctAnswers, currentAttempt, allQuestionHistory,
          currentAttemptHistory, currentGuidingIndex, op, questionId,
          wasCorrect, before, served, scoreChange, onStatsUpdate, notified,
          raised, memo>>

(***************************************************************************)
(* Bounds of the exploration.                                              *)
(***************************************************************************)
MaxHistory == 3          \* Spec: answers recorded since construction/fullReset
MaxAttempt == 2          \* Spec, SpecDeep: highest attempt number explored
MaxDeepHistory == 15     \* SpecDeep: answers recorded
MaxSessionHistory == 11  \* SpecSession: answers recorded
MaxSessionAttempt == 2   \* SpecSession: highest attempt number explored
MaxCompareHistory == 2   \* SpecCompare: answers recorded
MaxLongHistory == 40     \* SpecLong: answers recorded
MaxPoolLen == 2          \* SpecPools: questions of the quiz pool
MaxPoolsHistory == 1     \* SpecPools: answers recorded
MaxWaterfallHistory == 2 \* SpecWaterfall: answers recorded
MaxFreeAnswers == 3      \* SpecLive: answers recorded before the last incorrect one
MaxShellHistory == 3     \* SpecShell: answers recorded

Min(a, b) == IF a < b THEN a ELSE b
Max(a, b) == IF a > b THEN a ELSE b

(***************************************************************************)
(* Types (powerpath.ts 26-65).                                             *)
(***************************************************************************)
Difficulty == {"easy", "medium", "hard"}

\* A PowerPathQuestion: id, difficulty, humanApproved and metadata.difficulty
\* ("" when the metadata carries no descriptor).  prompt and choices are
\* never read by the engine.
Question(id, difficulty, humanApproved, metaDifficulty) ==
    [id |-> id, difficulty |-> difficulty, humanApproved |-> humanApproved,
     metaDifficulty |-> metaDifficulty]

\* The null that getNextQuestion returns.
NoQuestion == Question("", "", FALSE, "")

\* An id that belongs to no pool.
NoPoolId == "zz"

\* The optional constructor argument onStatsUpdate: left out, a callback
\* that returns, a callback that throws.
NoObserver == "none"
ReturningObserver == "returns"
RaisingObserver == "throws"

(***************************************************************************)
(* Question Pool Normalizer (powerpath.ts 102-118).                        *)
(***************************************************************************)
\* String.prototype.toLowerCase on the descriptors the pools use.
toLowerCase(s) ==
    CASE s = "Easy" -> "easy"
      [] s = "LOW" -> "low"
      [] s = "Hard" -> "hard"
      [] s = "HIGH" -> "high"
      [] s = "Difficult" -> "difficult"
      [] s = "Medium" -> "medium"
      [] s = "Tricky" -> "tricky"
      [] OTHER -> s

\* Mutant: the descriptor is compared as it is written.
parseDifficulty_CaseSensitive(diff) ==
    IF diff = "easy" \/ diff = "low" THEN "easy"
    ELSE IF diff = "hard" \/ diff = "high" \/ diff = "difficult" THEN "hard"
    ELSE "medium"

parseDifficulty(diff) ==
    IF diff = "" THEN "medium"
    ELSE LET lower == toLowerCase(diff)
         IN IF lower = "easy" \/ lower = "low" THEN "easy"
            ELSE IF lower = "hard" \/ lower = "high" \/ lower = "difficult" THEN "hard"
            ELSE "medium"

normalizeQuizQuestions(questions) ==
    [i \in 1..Len(questions) |->
        [questions[i] EXCEPT !.difficulty =
            parseDifficulty(IF questions[i].metaDifficulty # ""
                            THEN questions[i].metaDifficulty
                            ELSE questions[i].difficulty)]]

(***************************************************************************)
(* Conversion from the game format (powerpath.ts 496-521).                 *)
(***************************************************************************)
\* A QuizQuestion of the game: id, metadata.difficulty ("" when the
\* metadata carries no descriptor) and metadata.humanApproved.
QuizQuestion(id, metaDifficulty, humanApproved) ==
    [id |-> id, metaDifficulty |-> metaDifficulty,
     humanApproved |-> humanApproved]

convertToPowerPathQuestion(question) ==
    LET difficulty == IF question.metaDifficulty = "" THEN "medium"
                      ELSE toLowerCase(question.metaDifficulty)
        normalizedDifficulty ==
            IF difficulty = "easy" \/ difficulty = "low" THEN "easy"
            ELSE IF difficulty = "hard" \/ difficulty = "high"
                    \/ difficulty = "difficult" THEN "hard"
            ELSE "medium"
    IN Question(question.id, normalizedDifficulty, question.humanApproved,
                question.metaDifficulty)

convertQuestionsToPowerPath(questions) ==
    [i \in 1..Len(questions) |-> convertToPowerPathQuestion(questions[i])]

(***************************************************************************)
(* Score calculation (powerpath.ts 128-145).                               *)
(***************************************************************************)

\* Mutant: the increment starts at 15.
calculateIncrement_FromFifteen(s) == Max(4, 15 - (s \div 10))

\* Mutant: the increment grows with the score.
calculateIncrement_Growing(s) == Max(4, 4 + (s \div 10))

\* Mutant: nothing is gained from score 90 on.
calculateIncrement_StalledAtNinety(s) ==
    IF s >= 90 THEN 0 ELSE Max(4, 14 - (s \div 10))

\* Mutant: every increment is doubled.
calculateIncrement_Doubled(s) == 2 * Max(4, 14 - (s \div 10))

\* Mutant: Math.ceil for Math.floor.
calculateIncrement_Ceil(s) == Max(4, 14 - ((s + 9) \div 10))

calculateIncrement(s) == Max(4, 14 - (s \div 10))

\* Mutant: strict comparisons, so a bracket starts one point late.
calculateDecrement_Strict(s) ==
    IF s > 90 THEN -8
    ELSE IF s > 80 THEN -7
    ELSE IF s > 70 THEN -6
    ELSE IF s > 50 THEN -5
    ELSE IF s > 40 THEN -4
    ELSE IF s > 30 THEN -3
    ELSE IF s > 20 THEN -2
    ELSE -1

calculateDecrement(s) ==
    IF s >= 90 THEN -8
    ELSE IF s >= 80 THEN -7
    ELSE IF s >= 70 THEN -6
    ELSE IF s >= 50 THEN -5
    ELSE IF s >= 40 THEN -4
    ELSE IF s >= 30 THEN -3
    ELSE IF s >= 20 THEN -2
    ELSE -1

(***************************************************************************)
(* Difficulty policy (powerpath.ts 150-175).                               *)
(***************************************************************************)

\* Mutant: > for >= at both thresholds.
getTargetDifficulty_Strict ==
    IF score > 90 THEN {"hard"}
    ELSE IF score > 50 THEN {"medium", "hard"}
    ELSE {"easy"}

\* The tiers getTargetDifficulty can return: Math.random() < 0.75 goes
\* either way.
getTargetDifficulty ==
    IF score >= 90 THEN {"hard"}
    ELSE IF score >= 50 THEN {"medium", "hard"}
    ELSE {"easy"}

\* Mutant: medium falls back to easy before hard.
getFallbackDifficulties_EasyFirst(primary) ==
    CASE primary = "easy" -> <<"easy", "medium", "hard">>
      [] primary = "medium" -> <<"medium", "easy", "hard">>
      [] primary = "hard" -> <<"hard", "medium", "easy">>

getFallbackDifficulties(primary) ==
    CASE primary = "easy" -> <<"easy", "medium", "hard">>
      [] primary = "medium" -> <<"medium", "hard", "easy">>
      [] primary = "hard" -> <<"hard", "medium", "easy">>

(***************************************************************************)
(* Question selection (powerpath.ts 184-285).                              *)
(***************************************************************************)
getGloballySeenQuestionIds ==
    {allQuestionHistory[i].questionId : i \in 1..Len(allQuestionHistory)}

getCurrentAttemptSeenIds ==
    {currentAttemptHistory[i].questionId : i \in 1..Len(currentAttemptHistory)}

filterByDifficulty(questions, difficulty) ==
    SelectSeq(questions, LAMBDA q : q.difficulty = difficulty)

filterUnseenQuestions(questions, seenIds) ==
    SelectSeq(questions, LAMBDA q : q.id \notin seenIds)

\* [array[i], array[j]] = [array[j], array[i]]  (1-based here)
Swap(array, i, j) == [array EXCEPT ![i] = array[j], ![j] = array[i]]

\* The arrays the Fisher-Yates loop can leave, from position i down:
\* j = floor(Math.random() * (i + 1)) is any index of 0..i (1..i here).
RECURSIVE shuffleFrom(_, _)
shuffleFrom(array, i) ==
    IF i <= 1 THEN {array}
    ELSE UNION {shuffleFrom(Swap(array, i, j), i - 1) : j \in 1..i}

shuffleArray(array) == shuffleFrom(array, Len(array))

\* Mutant: one shuffle of all the questions, approved or not.
prioritizeHumanApproved_ShuffleAll(questions) == shuffleArray(questions)

\* The orders prioritizeHumanApproved can return.
prioritizeHumanApproved(questions) ==
    LET humanApproved == SelectSeq(questions, LAMBDA q : q.humanApproved = TRUE)
        notApproved == SelectSeq(questions, LAMBDA q : q.humanApproved # TRUE)
    IN {a \o n : a \in shuffleArray(humanApproved), n \in shuffleArray(notApproved)}

\* One "for (const difficulty of fallbackOrder)" loop of selectQuizQuestion
\* over the questions whose id is not in seenIds, from tier k on: the
\* questions it can return, {} when it falls through.
RECURSIVE waterfallStep(_, _, _)
waterfallStep(fallbackOrder, seenIds, k) ==
    IF k > Len(fallbackOrder) THEN {}
    ELSE LET filtered == filterByDifficulty(quizQuestions, fallbackOrder[k])
             unseen == filterUnseenQuestions(filtered, seenIds)
         IN IF Len(unseen) > 0
            THEN {prioritized[1] : prioritized \in prioritizeHumanApproved(unseen)}
            ELSE waterfallStep(fallbackOrder, seenIds, k + 1)

\* Mutant: the tier comes first; any question of the first tier of the
\* order that has one is taken, answered or not.
selectFor_TierFirst(targetDifficulty) ==
    LET fallbackOrder == getFallbackDifficulties(targetDifficulty)
        step3 == waterfallStep(fallbackOrder, {}, 1)
    IN IF step3 # {} THEN step3
       ELSE IF Len(quizQuestions) > 0
            THEN {shuffled[1] : shuffled \in shuffleArray(quizQuestions)}
            ELSE {NoQuestion}

\* Mutant: step 1 looks at the current attempt's history, not the global one.
selectFor_AttemptOnly(targetDifficulty) ==
    LET fallbackOrder == getFallbackDifficulties(targetDifficulty)
        step2 == waterfallStep(fallbackOrder, getCurrentAttemptSeenIds, 1)
        step3 == waterfallStep(fallbackOrder, {}, 1)
    IN IF step2 # {} THEN step2
       ELSE IF step3 # {} THEN step3
       ELSE IF Len(quizQuestions) > 0
            THEN {shuffled[1] : shuffled \in shuffleArray(quizQuestions)}
            ELSE {NoQuestion}

\* Mutant: no step 2; once every question is globally seen, any question of
\* the tier is taken.
selectFor_NoStep2(targetDifficulty) ==
    LET fallbackOrder == getFallbackDifficulties(targetDifficulty)
        step1 == waterfallStep(fallbackOrder, getGloballySeenQuestionIds, 1)
        step3 == waterfallStep(fallbackOrder, {}, 1)
    IN IF step1 # {} THEN step1
       ELSE IF step3 # {} THEN step3
       ELSE IF Len(quizQuestions) > 0
            THEN {shuffled[1] : shuffled \in shuffleArray(quizQuestions)}
            ELSE {NoQuestion}

\* Mutant: no step 3 and no final fallback, so nothing is ever repeated
\* within an attempt.
selectFor_NoRepeat(targetDifficulty) ==
    LET fallbackOrder == getFallbackDifficulties(targetDifficulty)
        step1 == waterfallStep(fallbackOrder, getGloballySeenQuestionIds, 1)
        step2 == waterfallStep(fallbackOrder, getCurrentAttemptSeenIds, 1)
    IN IF step1 # {} THEN step1
       ELSE IF step2 # {} THEN step2
       ELSE {NoQuestion}

\* The questions selectQuizQuestion can return for one target difficulty.
selectFor(targetDifficulty) ==
    LET fallbackOrder == getFallbackDifficulties(targetDifficulty)
        step1 == waterfallStep(fallbackOrder, getGloballySeenQuestionIds, 1)
        step2 == waterfallStep(fallbackOrder, getCurrentAttemptSeenIds, 1)
        step3 == waterfallStep(fallbackOrder, {}, 1)
    IN IF step1 # {} THEN step1
       ELSE IF step2 # {} THEN step2
       ELSE IF step3 # {} THEN step3
       ELSE IF Len(quizQuestions) > 0
            THEN {shuffled[1] : shuffled \in shuffleArray(quizQuestions)}
            ELSE {NoQuestion}

selectQuizQuestion ==
    UNION {selectFor(targetDifficulty) : targetDifficulty \in getTargetDifficulty}

(***************************************************************************)
(* Public API: the reads (powerpath.ts 294-321, 339-352, 403-412, 452-459).*)
(***************************************************************************)
\* Mutant: > for >=.
isComplete_Strict == score > 100

isComplete == score >= 100

\* Mutant: <= for <.
getCurrentPhase_Inclusive ==
    IF currentGuidingIndex <= Len(guidingQuestions) THEN "guiding" ELSE "quiz"

getCurrentPhase ==
    IF currentGuidingIndex < Len(guidingQuestions) THEN "guiding" ELSE "quiz"

\* Math.round((x / y) * 100) for 0 <= x <= y, 0 < y < 2^13, in IEEE-754
\* double arithmetic: the quotient is rounded to 53 significant bits (ties
\* to even), the product with 100 is rounded to 53 bits again, and
\* Math.round takes floor(p + 0.5) of that double.  A 53-bit number is kept
\* in three limbs of 18 bits, <<high, middle, low>>; k is the exponent of
\* the quotient: x / y is in [2^-k, 2^(1-k)).  (Each stage binds its
\* argument to a value first, so that it is computed once.)
\*
\* Long division: the quotient is 1.a1 a2 a3 (16, 18 and 18 bits) times
\* 2^-k, with remainder r3 of y; it is rounded to nearest, ties to even.
quotientLimbs(x, y, k) ==
    CHOOSE m \in
        { LET r1 == (r0 * 2^16) % y
              r2 == (r1 * 2^18) % y
              r3 == (r2 * 2^18) % y
              a1 == (r0 * 2^16) \div y
              a2 == (r1 * 2^18) \div y
              a3 == (r2 * 2^18) \div y
          IN <<2^16 + a1, a2,
               a3 + (IF 2 * r3 > y \/ (2 * r3 = y /\ a3 % 2 = 1)
                     THEN 1 ELSE 0)>>
          : r0 \in {x * 2^k - y} } : TRUE

\* Carries: every limb but the highest is brought back below 2^18.
carried(limbs) ==
    CHOOSE c \in
        { <<t[1] + (t[2] + t[3] \div 2^18) \div 2^18,
            (t[2] + t[3] \div 2^18) % 2^18,
            t[3] % 2^18>>
          : t \in {limbs} } : TRUE

\* The mantissa times 100.
times100(mantissa) ==
    carried(CHOOSE n \in
                { <<100 * m[1], 100 * m[2], 100 * m[3]>>
                  : m \in {mantissa} } : TRUE)

\* The product has 59 or 60 bits: d = 6 or 7 of them are rounded away, to
\* nearest, ties to even.
roundedProduct(product) ==
    carried(CHOOSE p \in
                { LET d == IF n[1] >= 2^23 THEN 7 ELSE 6
                      rem == n[3] % 2^d
                  IN <<n[1], n[2],
                       n[3] - rem
                       + (IF \/ rem > 2^(d - 1)
                             \/ (rem = 2^(d - 1) /\ (n[3] \div 2^d) % 2 = 1)
                          THEN 2^d ELSE 0)>>
                  : n \in {product} } : TRUE)

\* Math.round of the double limbs * 2^-(52+k): its integer part, plus one
\* if the bit of 1/2 is set.
mathRound(limbs, k) ==
    CHOOSE v \in
        { (p[1] \div 2^(16 + k))
          + (IF p[1] % 2^(16 + k) >= 2^(15 + k) THEN 1 ELSE 0)
          : p \in {limbs} } : TRUE

roundPercent(x, y) ==
    IF x = 0 THEN 0
    ELSE IF x = y THEN 100
    ELSE CHOOSE v \in
             { mathRound(roundedProduct(times100(carried(quotientLimbs(x, y, k)))), k)
               : k \in {e \in 1..13 : x * 2^e >= y /\ x * 2^(e - 1) < y} } : TRUE

getState ==
    [score |-> score,
     questionsAnswered |-> questionsAnswered,
     correctAnswers |-> correctAnswers,
     accuracy |-> IF questionsAnswered > 0
                  THEN roundPercent(correctAnswers, questionsAnswered)
                  ELSE 0,
     isComplete |-> score >= 100,
     currentPhase |-> IF currentGuidingIndex < Len(guidingQuestions)
                      THEN "guiding" ELSE "quiz",
     guidingQuestionsRemaining |->
         Max(0, Len(guidingQuestions) - currentGuidingIndex)]

getStats ==
    LET state == getState
    IN [score |-> state.score,
        questionsAnswered |-> state.questionsAnswered,
        accuracy |-> state.accuracy,
        isComplete |-> state.isComplete]

\* Mutant: the counts run over both pools.
getQuestionCounts_AllPools ==
    LET all == guidingQuestions \o quizQuestions
    IN [easy |-> Len(SelectSeq(all, LAMBDA q : q.difficulty = "easy")),
        medium |-> Len(SelectSeq(all, LAMBDA q : q.difficulty = "medium")),
        hard |-> Len(SelectSeq(all, LAMBDA q : q.difficulty = "hard")),
        total |-> Len(all)]

getQuestionCounts ==
    [easy |-> Len(SelectSeq(quizQuestions, LAMBDA q : q.difficulty = "easy")),
     medium |-> Len(SelectSeq(quizQuestions, LAMBDA q : q.difficulty = "medium")),
     hard |-> Len(SelectSeq(quizQuestions, LAMBDA q : q.difficulty = "hard")),
     total |-> Len(quizQuestions)]

\* Mutant: no completion check; questions are served at score 100 too.
getNextQuestion_NoCompletionCheck ==
    IF currentGuidingIndex < Len(guidingQuestions)
    THEN {guidingQuestions[currentGuidingIndex + 1]}
    ELSE selectQuizQuestion

\* Mutant: the guiding phase always serves the first guiding question.
getNextQuestion_FirstGuiding ==
    IF score >= 100 THEN {NoQuestion}
    ELSE IF currentGuidingIndex < Len(guidingQuestions)
         THEN {guidingQuestions[1]}
         ELSE selectQuizQuestion

\* The values getNextQuestion can return in the current state.
getNextQuestion ==
    IF score >= 100 THEN {NoQuestion}
    ELSE IF currentGuidingIndex < Len(guidingQuestions)
         THEN {guidingQuestions[currentGuidingIndex + 1]}
         ELSE selectQuizQuestion

(***************************************************************************)
(* Public API: the writes (powerpath.ts 358-398, 417-447).                 *)
(***************************************************************************)
\* Mutant: the id of any guiding question counts, not the one at the cursor.
isGuidingQuestion_AnyGuiding(id) ==
    /\ currentGuidingIndex < Len(guidingQuestions)
    /\ \E i \in 1..Len(guidingQuestions) : guidingQuestions[i].id = id

\* recordAnswer, lines 361-362.
isGuidingQuestion(id) ==
    /\ currentGuidingIndex < Len(guidingQuestions)
    /\ guidingQuestions[currentGuidingIndex + 1].id = id

\* Mutant: the cursor moves to just after the guiding question answered.
advanceGuidingIndex_ToAnswered(id) ==
    IF \E i \in 1..Len(guidingQuestions) : guidingQuestions[i].id = id
    THEN CHOOSE i \in 1..Len(guidingQuestions) : guidingQuestions[i].id = id
    ELSE currentGuidingIndex

\* recordAnswer, lines 376-378.
advanceGuidingIndex(id) ==
    IF isGuidingQuestion(id)
    THEN currentGuidingIndex + 1
    ELSE currentGuidingIndex

\* recordAnswer, lines 381-390: the value of scoreChange.
scoreChangeFor(correct) ==
    IF correct THEN calculateIncrement(score) ELSE calculateDecrement(score)

\* Mutant: the new score is not capped at 100.
updatedScore_NoCap(correct) ==
    IF correct
    THEN score + calculateIncrement(score)
    ELSE Max(0, score + calculateDecrement(score))

\* Mutant: an incorrect answer to a guiding question costs nothing.
updatedScore_GuidingFree(correct) ==
    IF correct
    THEN Min(100, score + calculateIncrement(score))
    ELSE IF currentGuidingIndex < Len(guidingQuestions)
         THEN score
         ELSE Max(0, score + calculateDecrement(score))

\* recordAnswer, lines 386 and 389: the new score.
updatedScore(correct) ==
    IF correct
    THEN Min(100, score + calculateIncrement(score))
    ELSE Max(0, score + calculateDecrement(score))

\* Mutant: every entry is tagged with attempt 1.
historyEntry_FirstAttempt(id, correct) ==
    [questionId |-> id, wasCorrect |-> correct, attemptNumber |-> 1]

\* recordAnswer, lines 365-370 (without the timestamp).
historyEntry(id, correct) ==
    [questionId |-> id, wasCorrect |-> correct, attemptNumber |-> currentAttempt]

\* The engine's counters, as the caller of an operation finds them.
counters ==
    [score |-> score,
     questionsAnswered |-> questionsAnswered,
     correctAnswers |-> correctAnswers,
     currentAttempt |-> currentAttempt,
     currentGuidingIndex |-> currentGuidingIndex]

\* What an operation other than recordAnswer and getNextQuestion leaves in
\* the caller's hands.
called(name) ==
    /\ op' = name
    /\ questionId' = ""
    /\ wasCorrect' = FALSE
    /\ before' = counters
    /\ served' = NoQuestion
    /\ scoreChange' = 0


\* Mutant: the observer is handed the stats of the state the operation
\* found, not of the state it leaves.
onStatsUpdateCalls_Stale(state) ==
    IF onStatsUpdate = NoObserver THEN <<>> ELSE <<counters>>

\* Lines 392-395, 426-428, 444-446: the observer, if one is registered, is
\* called with this.getStats(), taken from the engine as it is at that
\* point: state is the engine's counters there.
onStatsUpdateCalls(state) ==
    IF onStatsUpdate = NoObserver THEN <<>> ELSE <<state>>

\* The end of a write: the observer is called once the write has changed
\* the state; if it throws, so does the write.
statsUpdate ==
    /\ notified' = onStatsUpdateCalls(counters')
    /\ raised' = (onStatsUpdate = RaisingObserver)


\* Mutant: an id of neither pool is rejected and the engine left alone.
recordAnswer_Validating(id, correct) ==
    IF \/ \E i \in 1..Len(guidingQuestions) : guidingQuestions[i].id = id
       \/ \E i \in 1..Len(quizQuestions) : quizQuestions[i].id = id
    THEN /\ questionsAnswered' = questionsAnswered + 1
         /\ allQuestionHistory' =
                Append(allQuestionHistory, historyEntry(id, correct))
         /\ currentAttemptHistory' =
                Append(currentAttemptHistory, historyEntry(id, correct))
         /\ currentGuidingIndex' = advanceGuidingIndex(id)
         /\ correctAnswers' = IF correct THEN correctAnswers + 1 ELSE correctAnswers
         /\ score' = updatedScore(correct)
         /\ scoreChange' = IF onStatsUpdate = RaisingObserver
                           THEN 0
                           ELSE scoreChangeFor(correct)
         /\ op' = "recordAnswer"
         /\ questionId' = id
         /\ wasCorrect' = correct
         /\ before' = counters
         /\ served' = NoQuestion
         /\ UNCHANGED <<currentAttempt, guidingQuestions, quizQuestions,
                        onStatsUpdate>>
         /\ statsUpdate
    ELSE /\ op' = "recordAnswer"
         /\ questionId' = id
         /\ wasCorrect' = correct
         /\ before' = counters
         /\ served' = NoQuestion
         /\ scoreChange' = 0
         /\ notified' = <<>>
         /\ raised' = TRUE
         /\ UNCHANGED <<engine, pools, onStatsUpdate>>

\* scoreChange is what the caller receives: nothing (0 here) when the
\* observer's exception leaves recordAnswer before its return statement.
recordAnswer(id, correct) ==
    /\ questionsAnswered' = questionsAnswered + 1
    /\ allQuestionHistory' = Append(allQuestionHistory, historyEntry(id, correct))
    /\ currentAttemptHistory' = Append(currentAttemptHistory, historyEntry(id, correct))
    /\ currentGuidingIndex' = advanceGuidingIndex(id)
    /\ correctAnswers' = IF correct THEN correctAnswers + 1 ELSE correctAnswers
    /\ score' = updatedScore(correct)
    /\ scoreChange' = IF onStatsUpdate = RaisingObserver
                      THEN 0
                      ELSE scoreChangeFor(correct)
    /\ op' = "recordAnswer"
    /\ questionId' = id
    /\ wasCorrect' = correct
    /\ before' = counters
    /\ served' = NoQuestion
    /\ UNCHANGED <<currentAttempt, guidingQuestions, quizQuestions,
                   onStatsUpdate>>
    /\ statsUpdate

\* Mutant: the history of the attempt survives the reset.
resetAttempt_KeepsAttemptHistory ==
    /\ score' = 0
    /\ questionsAnswered' = 0
    /\ correctAnswers' = 0
    /\ currentGuidingIndex' = 0
    /\ currentAttempt' = currentAttempt + 1
    /\ called("resetAttempt")
    /\ UNCHANGED <<allQuestionHistory, currentAttemptHistory,
                   guidingQuestions, quizQuestions,
                   onStatsUpdate>>
    /\ statsUpdate

\* Mutant: the global history is emptied too.
resetAttempt_ClearsAll ==
    /\ score' = 0
    /\ questionsAnswered' = 0
    /\ correctAnswers' = 0
    /\ currentGuidingIndex' = 0
    /\ allQuestionHistory' = <<>>
    /\ currentAttemptHistory' = <<>>
    /\ currentAttempt' = currentAttempt + 1
    /\ called("resetAttempt")
    /\ UNCHANGED <<guidingQuestions, quizQuestions,
                   onStatsUpdate>>
    /\ statsUpdate

\* Mutant: correctAnswers survives the reset.
resetAttempt_KeepsCorrect ==
    /\ score' = 0
    /\ questionsAnswered' = 0
    /\ currentGuidingIndex' = 0
    /\ currentAttemptHistory' = <<>>
    /\ currentAttempt' = currentAttempt + 1
    /\ called("resetAttempt")
    /\ UNCHANGED <<correctAnswers, allQuestionHistory, guidingQuestions,
                   quizQuestions,
                   onStatsUpdate>>
    /\ statsUpdate

resetAttempt ==
    /\ score' = 0
    /\ questionsAnswered' = 0
    /\ correctAnswers' = 0
    /\ currentGuidingIndex' = 0
    /\ currentAttemptHistory' = <<>>
    /\ currentAttempt' = currentAttempt + 1
    /\ called("resetAttempt")
    /\ UNCHANGED <<allQuestionHistory, guidingQuestions, quizQuestions,
                   onStatsUpdate>>
    /\ statsUpdate


\* Mutant: the attempt number survives the full reset.
fullReset_KeepsAttempt ==
    /\ score' = 0
    /\ questionsAnswered' = 0
    /\ correctAnswers' = 0
    /\ currentGuidingIndex' = 0
    /\ allQuestionHistory' = <<>>
    /\ currentAttemptHistory' = <<>>
    /\ called("fullReset")
    /\ UNCHANGED <<currentAttempt, guidingQuestions, quizQuestions,
                   onStatsUpdate>>
    /\ statsUpdate

\* Mutant: the global history survives the full reset.
fullReset_KeepsHistory ==
    /\ score' = 0
    /\ questionsAnswered' = 0
    /\ correctAnswers' = 0
    /\ currentGuidingIndex' = 0
    /\ currentAttemptHistory' = <<>>
    /\ currentAttempt' = 1
    /\ called("fullReset")
    /\ UNCHANGED <<allQuestionHistory, guidingQuestions, quizQuestions,
                   onStatsUpdate>>
    /\ statsUpdate

fullReset ==
    /\ score' = 0
    /\ questionsAnswered' = 0
    /\ correctAnswers' = 0
    /\ currentGuidingIndex' = 0
    /\ allQuestionHistory' = <<>>
    /\ currentAttemptHistory' = <<>>
    /\ currentAttempt' = 1
    /\ called("fullReset")
    /\ UNCHANGED <<guidingQuestions, quizQuestions,
                   onStatsUpdate>>
    /\ statsUpdate


\* Mutant: the read leaves the quiz pool in another order, as an in-place
\* shuffle would.
read_ReordersPool(name, question) ==
    /\ op' = name
    /\ questionId' = ""
    /\ wasCorrect' = FALSE
    /\ before' = counters
    /\ served' = question
    /\ scoreChange' = 0
    /\ notified' = <<>>
    /\ raised' = FALSE
    /\ quizQuestions' = [i \in 1..Len(quizQuestions) |->
                            quizQuestions[Len(quizQuestions) + 1 - i]]
    /\ UNCHANGED engine
    /\ UNCHANGED <<guidingQuestions, onStatsUpdate>>

\* A read: the engine is left alone, the caller holds the result.
read(name, question) ==
    /\ op' = name
    /\ questionId' = ""
    /\ wasCorrect' = FALSE
    /\ before' = counters
    /\ served' = question
    /\ scoreChange' = 0
    /\ notified' = <<>>
    /\ raised' = FALSE
    /\ UNCHANGED engine
    /\ UNCHANGED pools
    /\ UNCHANGED onStatsUpdate

(***************************************************************************)
(* Construction (powerpath.ts 72-97).                                      *)
(***************************************************************************)
G1 == Question("g1", "medium", FALSE, "")
G2 == Question("g2", "medium", FALSE, "")
G3 == Question("g3", "medium", FALSE, "")
G4 == Question("g4", "medium", FALSE, "")
G5 == Question("g5", "medium", FALSE, "")
G6 == Question("g6", "medium", FALSE, "")
G7 == Question("g7", "medium", FALSE, "")
G8 == Question("g8", "medium", FALSE, "")
G9 == Question("g9", "medium", FALSE, "")
G10 == Question("g10", "medium", FALSE, "")
G11 == Question("g11", "medium", FALSE, "")
G12 == Question("g12", "medium", FALSE, "")
\* Quiz questions as convertToPowerPathQuestion hands them over.
Q1 == Question("q1", "easy", TRUE, "Easy")
Q2 == Question("q2", "easy", FALSE, "LOW")
Q3 == Question("q3", "hard", FALSE, "Hard")
Q4 == Question("q4", "medium", FALSE, "")
Q5 == Question("q5", "medium", TRUE, "Tricky")
Q7 == Question("q7", "hard", TRUE, "HIGH")

\* The pools the engine is constructed over.
PoolConfigs ==
    { [guiding |-> <<>>, quiz |-> <<>>, onStatsUpdate |-> NoObserver],
      [guiding |-> <<G1>>, quiz |-> <<>>, onStatsUpdate |-> RaisingObserver],
      [guiding |-> <<>>, quiz |-> <<Q1, Q2>>,
       onStatsUpdate |-> ReturningObserver],
      [guiding |-> <<>>, quiz |-> <<Q4, Q3>>,
       onStatsUpdate |-> ReturningObserver],
      [guiding |-> <<G1, G2>>, quiz |-> <<>>,
       onStatsUpdate |-> ReturningObserver] }

DeepPoolConfigs ==
    { [guiding |-> <<>>, quiz |-> <<>>, onStatsUpdate |-> ReturningObserver] }

SessionPoolConfigs ==
    { [guiding |-> <<G1, G2>>, quiz |-> <<Q1, Q3>>,
       onStatsUpdate |-> ReturningObserver],
      [guiding |-> <<>>, quiz |-> <<Q1, Q4, Q3>>,
       onStatsUpdate |-> ReturningObserver],
      [guiding |-> <<G1>>, quiz |-> <<>>, onStatsUpdate |-> ReturningObserver],
      [guiding |-> <<G1, G2, G3, G4, G5, G6, G7, G8, G9, G10>>,
       quiz |-> <<Q1, Q4, Q3>>, onStatsUpdate |-> ReturningObserver] }

constructor(guiding, quiz, observer) ==
    /\ guidingQuestions = guiding
    /\ quizQuestions = normalizeQuizQuestions(quiz)
    /\ onStatsUpdate = observer
    /\ notified = <<>>
    /\ raised = FALSE
    /\ score = 0
    /\ questionsAnswered = 0
    /\ correctAnswers = 0
    /\ currentAttempt = 1
    /\ allQuestionHistory = <<>>
    /\ currentAttemptHistory = <<>>
    /\ currentGuidingIndex = 0
    /\ op = "constructor"
    /\ questionId = ""
    /\ wasCorrect = FALSE
    /\ before = [score |-> 0, questionsAnswered |-> 0, correctAnswers |-> 0,
                 currentAttempt |-> 1, currentGuidingIndex |-> 0]
    /\ served = NoQuestion
    /\ scoreChange = 0

Init ==
    /\ \E c \in PoolConfigs : constructor(c.guiding, c.quiz, c.onStatsUpdate)
    /\ memo = <<>>
InitDeep ==
    /\ \E c \in DeepPoolConfigs : constructor(c.guiding, c.quiz, c.onStatsUpdate)
    /\ memo = <<>>
InitSession ==
    /\ \E c \in SessionPoolConfigs : constructor(c.guiding, c.quiz, c.onStatsUpdate)
    /\ memo = <<>>

(***************************************************************************)
(* The callers.                                                            *)
(***************************************************************************)
\* The ids a caller can pass: every id of either pool and one of no pool.
CallerIds ==
    {guidingQuestions[i].id : i \in 1..Len(guidingQuestions)}
    \cup {quizQuestions[i].id : i \in 1..Len(quizQuestions)}
    \cup {NoPoolId}

GetNextQuestion ==
    /\ \E q \in getNextQuestion : read("getNextQuestion", q)
    /\ UNCHANGED memo

GetState == read("getState", NoQuestion) /\ UNCHANGED memo
GetStats == read("getStats", NoQuestion) /\ UNCHANGED memo
IsComplete == read("isComplete", NoQuestion) /\ UNCHANGED memo
GetCurrentPhase == read("getCurrentPhase", NoQuestion) /\ UNCHANGED memo
GetQuestionCounts == read("getQuestionCounts", NoQuestion) /\ UNCHANGED memo

RecordAnswer ==
    /\ UNCHANGED memo
    /\ Len(allQuestionHistory) < MaxHistory
    /\ \E id \in CallerIds, correct \in BOOLEAN :
          recordAnswer(id, correct)

ResetAttempt ==
    /\ currentAttempt < MaxAttempt
    /\ resetAttempt
    /\ UNCHANGED memo

FullReset == fullReset /\ UNCHANGED memo

Next ==
    \/ GetNextQuestion
    \/ RecordAnswer
    \/ ResetAttempt
    \/ FullReset
    \/ GetState
    \/ GetStats
    \/ IsComplete
    \/ GetCurrentPhase
    \/ GetQuestionCounts

Spec == Init /\ [][Next]_vars

\* Any caller, long histories; the attempt is reset once it is complete.
DeepRecordAnswer ==
    /\ UNCHANGED memo
    /\ Len(allQuestionHistory) < MaxDeepHistory
    /\ \E id \in CallerIds, correct \in BOOLEAN :
          recordAnswer(id, correct)

DeepResetAttempt ==
    /\ currentAttempt < MaxAttempt
    /\ score >= 100
    /\ resetAttempt
    /\ UNCHANGED memo

NextDeep ==
    \/ GetNextQuestion
    \/ DeepRecordAnswer
    \/ DeepResetAttempt
    \/ FullReset

SpecDeep == InitDeep /\ [][NextDeep]_vars

\* The caller that answers what it was served.
SessionRecordAnswer ==
    /\ UNCHANGED memo
    /\ op = "getNextQuestion"
    /\ served # NoQuestion
    /\ Len(allQuestionHistory) < MaxSessionHistory
    /\ \E correct \in BOOLEAN : recordAnswer(served.id, correct)

SessionResetAttempt ==
    /\ op = "getNextQuestion"
    /\ served = NoQuestion
    /\ currentAttempt < MaxSessionAttempt
    /\ resetAttempt
    /\ UNCHANGED memo

SessionFullReset ==
    /\ op = "getNextQuestion"
    /\ served = NoQuestion
    /\ fullReset
    /\ UNCHANGED memo

NextSession ==
    \/ GetNextQuestion
    \/ SessionRecordAnswer
    \/ SessionResetAttempt
    \/ SessionFullReset

SpecSession == InitSession /\ [][NextSession]_vars

\* The same caller over long guiding pools: 11 questions, which 11 answers
\* can just exhaust, and 12.
GuidingPoolConfigs ==
    { [guiding |-> <<G1, G2, G3, G4, G5, G6, G7, G8, G9, G10, G11>>,
       quiz |-> <<Q1>>, onStatsUpdate |-> ReturningObserver],
      [guiding |-> <<G1, G2, G3, G4, G5, G6, G7, G8, G9, G10, G11, G12>>,
       quiz |-> <<Q1>>, onStatsUpdate |-> ReturningObserver] }

InitGuiding ==
    /\ \E c \in GuidingPoolConfigs : constructor(c.guiding, c.quiz, c.onStatsUpdate)
    /\ memo = <<>>

SpecGuiding == InitGuiding /\ [][NextSession]_vars

\* Any caller, who keeps one recordAnswer call (its arguments, the state it
\* found and what it returned and left) and goes on.
ComparePoolConfigs ==
    { [guiding |-> <<G1>>, quiz |-> <<Q1>>, onStatsUpdate |-> ReturningObserver] }

InitCompare ==
    /\ \E c \in ComparePoolConfigs : constructor(c.guiding, c.quiz, c.onStatsUpdate)
    /\ memo = <<>>

CompareRecordAnswer ==
    /\ UNCHANGED memo
    /\ Len(allQuestionHistory) < MaxCompareHistory
    /\ \E id \in CallerIds, correct \in BOOLEAN :
          recordAnswer(id, correct)

Keep ==
    /\ op = "recordAnswer"
    /\ memo = <<>>
    /\ memo' = << [questionId |-> questionId,
                   wasCorrect |-> wasCorrect,
                   before |-> before,
                   score |-> score,
                   scoreChange |-> scoreChange] >>
    /\ UNCHANGED <<engine, pools, op, questionId, wasCorrect, before, served,
                   scoreChange, onStatsUpdate, notified, raised>>

NextCompare ==
    \/ CompareRecordAnswer
    \/ ResetAttempt
    \/ FullReset
    \/ Keep

SpecCompare == InitCompare /\ [][NextCompare]_vars

\* The caller on a streak: every answer is correct up to some point of the
\* attempt and incorrect from there on; it reads the state as it goes.
LongPoolConfigs ==
    { [guiding |-> <<>>, quiz |-> <<>>, onStatsUpdate |-> NoObserver] }

InitLong ==
    /\ \E c \in LongPoolConfigs : constructor(c.guiding, c.quiz, c.onStatsUpdate)
    /\ memo = <<>>

LongRecordAnswer ==
    /\ UNCHANGED memo
    /\ Len(allQuestionHistory) < MaxLongHistory
    /\ \E correct \in BOOLEAN :
          /\ correct => correctAnswers = questionsAnswered
          /\ recordAnswer(NoPoolId, correct)

NextLong ==
    \/ LongRecordAnswer
    \/ GetState
    \/ GetStats

SpecLong == InitLong /\ [][NextLong]_vars

\* The caller who constructs the engine over any quiz pool of the
\* descriptors below, handed over as PowerPathQuestions or converted from
\* the game's QuizQuestions, and keeps what it handed over; it answers the
\* guiding question or passes an id of no pool.
Descriptors == {"", "Easy", "LOW", "HIGH", "Difficult", "Tricky"}

PoolIds == <<"q1", "q2", "q3", "q4">>

PowerPathQuestionsAt(i) ==
    { Question(PoolIds[i], tier, FALSE, descriptor) :
        tier \in Difficulty, descriptor \in Descriptors }

QuizQuestionsAt(i) ==
    { QuizQuestion(PoolIds[i], descriptor, approved) :
        descriptor \in Descriptors, approved \in BOOLEAN }

\* The pools of at most MaxPoolLen questions with the ids of PoolIds in
\* order.
PowerPathPools ==
    UNION { { pool \in [1..n -> UNION {PowerPathQuestionsAt(i) : i \in 1..n}] :
                \A i \in 1..n : pool[i] \in PowerPathQuestionsAt(i) }
            : n \in 0..MaxPoolLen }

QuizQuestionPools ==
    UNION { { pool \in [1..n -> UNION {QuizQuestionsAt(i) : i \in 1..n}] :
                \A i \in 1..n : pool[i] \in QuizQuestionsAt(i) }
            : n \in 0..MaxPoolLen }

InitPools ==
    \/ \E quiz \in PowerPathPools :
          /\ constructor(<<G1>>, quiz, NoObserver)
          /\ memo = [format |-> "powerpath", questions |-> quiz]
    \/ \E quiz \in QuizQuestionPools :
          /\ constructor(<<G1>>, convertQuestionsToPowerPath(quiz), NoObserver)
          /\ memo = [format |-> "game", questions |-> quiz]

PoolsRecordAnswer ==
    /\ UNCHANGED memo
    /\ Len(allQuestionHistory) < MaxPoolsHistory
    /\ \E id \in {G1.id, NoPoolId}, correct \in BOOLEAN :
          recordAnswer(id, correct)

NextPools ==
    \/ PoolsRecordAnswer
    \/ FullReset
    \/ GetQuestionCounts

SpecPools == InitPools /\ [][NextPools]_vars

\* Any caller over a quiz pool of one question per tier, of which only the
\* hard one is approved.
WaterfallPoolConfigs ==
    { [guiding |-> <<>>, quiz |-> <<Q2, Q4, Q7>>,
       onStatsUpdate |-> NoObserver] }

InitWaterfall ==
    /\ \E c \in WaterfallPoolConfigs : constructor(c.guiding, c.quiz, c.onStatsUpdate)
    /\ memo = <<>>

WaterfallRecordAnswer ==
    /\ UNCHANGED memo
    /\ Len(allQuestionHistory) < MaxWaterfallHistory
    /\ \E id \in CallerIds, correct \in BOOLEAN :
          recordAnswer(id, correct)

NextWaterfall ==
    \/ GetNextQuestion
    \/ WaterfallRecordAnswer
    \/ ResetAttempt

SpecWaterfall == InitWaterfall /\ [][NextWaterfall]_vars

\* The caller that keeps taking the next question and recording an answer
\* for it, over a non-empty quiz pool; its incorrect answers all come among
\* the first MaxFreeAnswers + 1 answers.  11 correct answers complete any
\* attempt, so the engine's own completion ends the session.
LivePoolConfigs ==
    { [guiding |-> <<>>, quiz |-> <<Q1, Q4, Q3>>,
       onStatsUpdate |-> ReturningObserver],
      [guiding |-> <<G1, G2>>, quiz |-> <<Q2>>,
       onStatsUpdate |-> ReturningObserver] }

InitLive ==
    /\ \E c \in LivePoolConfigs : constructor(c.guiding, c.quiz, c.onStatsUpdate)
    /\ memo = <<>>

LiveGetNextQuestion ==
    /\ op # "getNextQuestion"
    /\ GetNextQuestion

LiveRecordAnswer ==
    /\ UNCHANGED memo
    /\ op = "getNextQuestion"
    /\ served # NoQuestion
    /\ Len(allQuestionHistory) < MaxFreeAnswers + 12
    /\ \E correct \in BOOLEAN :
          /\ ~correct => Len(allQuestionHistory) <= MaxFreeAnswers
          /\ recordAnswer(served.id, correct)

NextLive ==
    \/ LiveGetNextQuestion
    \/ LiveRecordAnswer

SpecLive ==
    /\ InitLive
    /\ [][NextLive]_vars
    /\ WF_vars(LiveGetNextQuestion)
    /\ WF_vars(LiveRecordAnswer)

(***************************************************************************)
(* The game shell (src/unnamed/part_000, class SpaceReadingGame) with      *)
(* PowerPath active.  memo holds its fields: the screen shown, the         *)
(* question displayed (currentPowerPathQuestion), selectedAnswer (by the   *)
(* choice's flag correct), the disabled flags of the confirm button and    *)
(* of the choice buttons, the feedback modal, the setting                  *)
(* disableChoicesAfterSelection, and the engine's questionsAnswered at     *)
(* the time the question was loaded.  The reading timer is off.            *)
(***************************************************************************)
NoChoice == "none"
Choices == {"correct", "incorrect"}

ShellPoolConfigs ==
    { [guiding |-> <<G1, G2>>, quiz |-> <<Q1>>,
       onStatsUpdate |-> ReturningObserver] }

\* loadArticleTile up to the construction of the engine.
InitShell ==
    /\ \E c \in ShellPoolConfigs : constructor(c.guiding, c.quiz, c.onStatsUpdate)
    /\ \E setting \in BOOLEAN :
          memo = [screen |-> "loading",
                  currentPowerPathQuestion |-> NoQuestion,
                  selectedAnswer |-> NoChoice,
                  confirmDisabled |-> TRUE,
                  choicesDisabled |-> TRUE,
                  feedbackShown |-> FALSE,
                  disableChoicesAfterSelection |-> setting,
                  answeredAtLoad |-> 0]

\* loadNextPowerPathQuestion, from the shell fields m; renderPowerPathQuestion
\* disables the confirm button and builds new choice buttons.
loadNextPowerPathQuestion(m) ==
    IF isComplete
    THEN /\ read("isComplete", NoQuestion)
         /\ memo' = [m EXCEPT !.screen = "results"]
    ELSE \E nextQuestion \in getNextQuestion :
            /\ read("getNextQuestion", nextQuestion)
            /\ memo' = IF nextQuestion = NoQuestion
                       THEN [m EXCEPT !.screen = "results"]
                       ELSE [m EXCEPT !.screen = "reading",
                                      !.currentPowerPathQuestion = nextQuestion,
                                      !.confirmDisabled = TRUE,
                                      !.choicesDisabled = FALSE,
                                      !.answeredAtLoad = questionsAnswered]

\* The end of loadArticleTile: the first question is loaded.
LoadArticleTile ==
    /\ memo.screen = "loading"
    /\ loadNextPowerPathQuestion(memo)

\* A click on a choice button.
SelectAnswer ==
    /\ memo.screen = "reading"
    /\ ~memo.choicesDisabled
    /\ \E choice \in Choices :
          memo' = [memo EXCEPT !.selectedAnswer = choice,
                               !.confirmDisabled = FALSE]
    /\ UNCHANGED <<engine, pools, op, questionId, wasCorrect, before, served,
                   scoreChange, onStatsUpdate, notified, raised>>

\* A click on the confirm button; without a selected answer the handler
\* returns at once.
ConfirmAnswer ==
    /\ memo.screen = "reading"
    /\ ~memo.confirmDisabled
    /\ memo.selectedAnswer # NoChoice
    /\ memo.currentPowerPathQuestion # NoQuestion
    /\ Len(allQuestionHistory) < MaxShellHistory
    /\ recordAnswer(memo.currentPowerPathQuestion.id,
                    memo.selectedAnswer = "correct")
    /\ memo' = [memo EXCEPT
                   !.choicesDisabled =
                       memo.choicesDisabled \/ memo.disableChoicesAfterSelection,
                   !.feedbackShown = TRUE]

\* A click on the button of the feedback modal.
CloseFeedback ==
    /\ memo.screen = "reading"
    /\ memo.feedbackShown
    /\ loadNextPowerPathQuestion([memo EXCEPT !.feedbackShown = FALSE,
                                              !.selectedAnswer = NoChoice])

NextShell ==
    \/ LoadArticleTile
    \/ SelectAnswer
    \/ ConfirmAnswer
    \/ CloseFeedback

SpecShell == InitShell /\ [][NextShell]_vars

(***************************************************************************)
(* The claims.                                                             *)
(***************************************************************************)

\* C1 (SpecDeep): in every state reached by recordAnswer (any correctness),
\* resetAttempt and fullReset calls, score is an integer with
\* 0 <= score <= 100.
C1_ScoreInRange == score \in 0..100

\* A correct answer recorded at score 100 left the score at the cap.
C1_Witness ==
    /\ op = "recordAnswer"
    /\ wasCorrect
    /\ before.score = 100
    /\ score = 100

\* C2 (SpecDeep): in every reachable state isComplete() is true exactly
\* when score >= 100, and getState().isComplete and getStats().isComplete
\* have the value of isComplete().
C2_CompleteIff ==
    /\ isComplete <=> score >= 100
    /\ getState.isComplete = isComplete
    /\ getStats.isComplete = isComplete

\* An answer took the score from below 100 to 100 and the engine reports
\* completion.
C2_Witness ==
    /\ op = "recordAnswer"
    /\ before.score < 100
    /\ isComplete
    /\ getStats.isComplete

\* C3 (SpecDeep): recordAnswer(id, true) at score s leaves
\* min(100, s + max(4, 14 - floor(s/10))); at score 96 it leaves 100.
C3_CorrectAnswer ==
    (op = "recordAnswer" /\ wasCorrect) =>
        LET s == before.score
            delta == IF 14 - (s \div 10) > 4 THEN 14 - (s \div 10) ELSE 4
        IN /\ score = (IF s + delta < 100 THEN s + delta ELSE 100)
           /\ (s = 96 => score = 100)

\* A correct answer was recorded at score 96.
C3_Witness ==
    /\ op = "recordAnswer"
    /\ wasCorrect
    /\ before.score = 96
    /\ score = 100

\* The penalty of the claim: the bracket of s by its inclusive lower bound.
C4_Penalty(s) ==
    CASE s >= 90 -> -8
      [] s >= 80 /\ s < 90 -> -7
      [] s >= 70 /\ s < 80 -> -6
      [] s >= 50 /\ s < 70 -> -5
      [] s >= 40 /\ s < 50 -> -4
      [] s >= 30 /\ s < 40 -> -3
      [] s >= 20 /\ s < 30 -> -2
      [] OTHER -> -1

\* C4 (SpecDeep): recordAnswer(id, false) at score s leaves max(0, s + d(s))
\* with d the bracket table; the penalty is -8 at score 90 and -7 at score 89.
C4_IncorrectAnswer ==
    (op = "recordAnswer" /\ ~wasCorrect) =>
        LET s == before.score
        IN /\ score = (IF s + C4_Penalty(s) > 0 THEN s + C4_Penalty(s) ELSE 0)
           /\ (s = 90 => scoreChange = -8 /\ score = 82)
           /\ (s = 89 => scoreChange = -7 /\ score = 82)

\* An incorrect answer was recorded at score exactly 90.
C4_Witness ==
    /\ op = "recordAnswer"
    /\ ~wasCorrect
    /\ before.score = 90
    /\ score = 82

\* C5 (SpecDeep), the claim as stated: the value recordAnswer returns is
\* the score after the call minus the score before it.
C5_ReturnsAppliedDelta ==
    op = "recordAnswer" => scoreChange = score - before.score

QuizIds == {quizQuestions[i].id : i \in 1..Len(quizQuestions)}

\* C7 (SpecSession): while score < 100 and a guiding question remains,
\* getNextQuestion returns the guiding question at the cursor and no quiz
\* question; for the caller that records what it was served, the i-th
\* question served in an attempt is guiding question i, and a quiz question
\* is served only once the guiding cursor is exhausted.
C7_GuidingFirstInOrder ==
    op = "getNextQuestion" =>
        /\ (score < 100 /\ currentGuidingIndex < Len(guidingQuestions)) =>
               (/\ served = guidingQuestions[currentGuidingIndex + 1]
                /\ served.id \notin QuizIds)
        /\ (served # NoQuestion /\ questionsAnswered < Len(guidingQuestions)) =>
               served = guidingQuestions[questionsAnswered + 1]
        /\ served.id \in QuizIds =>
               (/\ currentGuidingIndex = Len(guidingQuestions)
                /\ questionsAnswered >= Len(guidingQuestions))

\* The second question served in an attempt is the second guiding question.
C7_Witness ==
    /\ op = "getNextQuestion"
    /\ Len(guidingQuestions) = 2
    /\ questionsAnswered = 1
    /\ served = guidingQuestions[2]

\* C8 (Spec): 0 <= guidingCursor <= guiding-pool length always; the cursor
\* never decreases and the quiz phase is never left, except by resetAttempt
\* and fullReset.
C8_CursorMonotonic ==
    /\ [](currentGuidingIndex \in 0..Len(guidingQuestions))
    /\ [][op' \notin {"resetAttempt", "fullReset"} =>
            /\ currentGuidingIndex' >= currentGuidingIndex
            /\ (getCurrentPhase = "quiz" => getCurrentPhase' = "quiz")]_vars

\* In the quiz phase, after two guiding questions, the id of the first
\* guiding question was recorded again and the phase is still quiz.
C8_Witness ==
    /\ op = "recordAnswer"
    /\ Len(guidingQuestions) = 2
    /\ before.currentGuidingIndex = 2
    /\ questionId = guidingQuestions[1].id
    /\ getCurrentPhase = "quiz"

\* C9 (Spec): recordAnswer(questionId, _) advances the cursor by one exactly
\* when a guiding question remains and questionId is the id of the one at
\* the cursor, and leaves it otherwise; no other operation but the resets
\* changes it, so the phase goes from guiding to quiz only by such a call.
C9_CursorAdvance ==
    [][/\ IF op' = "recordAnswer" /\ questionsAnswered' = questionsAnswered + 1
          THEN IF /\ currentGuidingIndex < Len(guidingQuestions)
                  /\ guidingQuestions[currentGuidingIndex + 1].id = questionId'
               THEN currentGuidingIndex' = currentGuidingIndex + 1
               ELSE currentGuidingIndex' = currentGuidingIndex
          ELSE \/ op' \in {"resetAttempt", "fullReset"}
               \/ currentGuidingIndex' = currentGuidingIndex
       /\ (getCurrentPhase = "guiding" /\ getCurrentPhase' = "quiz") =>
              /\ op' = "recordAnswer"
              /\ currentGuidingIndex = Len(guidingQuestions) - 1
              /\ questionId' = guidingQuestions[Len(guidingQuestions)].id]_vars

\* With the cursor on the first of two guiding questions, the id of the
\* second was recorded and the cursor did not move.
C9_Witness ==
    /\ op = "recordAnswer"
    /\ Len(guidingQuestions) = 2
    /\ questionId = guidingQuestions[2].id
    /\ before.currentGuidingIndex = 0
    /\ currentGuidingIndex = 0

\* C10 (SpecSession): getNextQuestion returns none only when score >= 100
\* or the guiding cursor is exhausted and the quiz pool is empty; with
\* score < 100 and a guiding question left or a non-empty quiz pool it
\* returns a question.
C10_NoneOnlyWhenDone ==
    op = "getNextQuestion" =>
        /\ served = NoQuestion =>
               \/ score >= 100
               \/ (/\ currentGuidingIndex >= Len(guidingQuestions)
                   /\ Len(quizQuestions) = 0)
        /\ (/\ score < 100
            /\ \/ currentGuidingIndex < Len(guidingQuestions)
               \/ Len(quizQuestions) > 0)
           => served # NoQuestion

\* Below score 100, a question is served although every quiz question has
\* been answered in the current attempt.
C10_Witness ==
    /\ op = "getNextQuestion"
    /\ score < 100
    /\ served.id \in QuizIds
    /\ QuizIds \subseteq getCurrentAttemptSeenIds

\* C11 (Spec): exposure avoidance.  In the quiz phase, while some quiz
\* question's id is absent from the global history, getNextQuestion below
\* score 100 returns a question, and any question it returns has an id
\* absent from the global history, whatever the attempt number: a question
\* answered in an earlier attempt is not served while a never-answered quiz
\* question remains.
C11_ExposureAvoidance ==
    (/\ op = "getNextQuestion"
     /\ currentGuidingIndex >= Len(guidingQuestions)
     /\ QuizIds \ getGloballySeenQuestionIds # {})
    => /\ score < 100 => served # NoQuestion
       /\ served # NoQuestion =>
              served.id \in QuizIds \ getGloballySeenQuestionIds

\* In attempt 2, with an empty attempt history, a question answered in
\* attempt 1 is passed over for one never answered.
C11_Witness ==
    /\ op = "getNextQuestion"
    /\ currentAttempt = 2
    /\ currentAttemptHistory = <<>>
    /\ currentGuidingIndex >= Len(guidingQuestions)
    /\ QuizIds \cap getGloballySeenQuestionIds # {}
    /\ served.id \in QuizIds \ getGloballySeenQuestionIds

\* C12 (Spec): in the quiz phase, while some quiz question's id is
\* absent from the current attempt's history, getNextQuestion below score
\* 100 returns a question, and any question it returns has an id absent
\* from the current attempt's history (also when every question is globally
\* seen); so the caller that records what it is served is served a quiz
\* question for the second time in an attempt only once every quiz question
\* has been answered in that attempt.
C12_NoRepeatWithinAttempt ==
    (/\ op = "getNextQuestion"
     /\ currentGuidingIndex >= Len(guidingQuestions))
    => /\ QuizIds \ getCurrentAttemptSeenIds # {} =>
              /\ score < 100 => served # NoQuestion
              /\ served # NoQuestion =>
                     served.id \in QuizIds \ getCurrentAttemptSeenIds
       /\ served.id \in getCurrentAttemptSeenIds =>
              QuizIds \subseteq getCurrentAttemptSeenIds

\* In attempt 2 every quiz question is globally seen, one has been answered
\* in this attempt, and the question served is another one.
C12_Witness ==
    /\ op = "getNextQuestion"
    /\ currentAttempt = 2
    /\ currentGuidingIndex >= Len(guidingQuestions)
    /\ QuizIds \subseteq getGloballySeenQuestionIds
    /\ QuizIds \cap getCurrentAttemptSeenIds # {}
    /\ served.id \in QuizIds \ getCurrentAttemptSeenIds

\* The target tiers the specification allows at score s.
C13_Targets(s) ==
    IF s < 50 THEN {"easy"}
    ELSE IF s >= 90 THEN {"hard"}
    ELSE {"medium", "hard"}

\* The fallback order the specification gives for a target tier.
C13_Order(target) ==
    CASE target = "easy" -> <<"easy", "medium", "hard">>
      [] target = "medium" -> <<"medium", "hard", "easy">>
      [] target = "hard" -> <<"hard", "medium", "easy">>

\* The quiz questions of one tier whose id is not in seenIds.
C13_Candidates(seenIds, tier) ==
    {quizQuestions[i] : i \in
        {j \in 1..Len(quizQuestions) :
            /\ quizQuestions[j].difficulty = tier
            /\ quizQuestions[j].id \notin seenIds}}

\* The ids set aside at the waterfall step that yields the result: the
\* first of global history, attempt history, nothing, that leaves a
\* candidate in some tier.
C13_YieldingSeenIds ==
    IF \E tier \in Difficulty :
           C13_Candidates(getGloballySeenQuestionIds, tier) # {}
    THEN getGloballySeenQuestionIds
    ELSE IF \E tier \in Difficulty :
                C13_Candidates(getCurrentAttemptSeenIds, tier) # {}
         THEN getCurrentAttemptSeenIds
         ELSE {}

\* The first tier of an order that has a candidate outside seenIds.
C13_FirstTier(order, seenIds) ==
    order[CHOOSE k \in 1..Len(order) :
              /\ C13_Candidates(seenIds, order[k]) # {}
              /\ \A j \in 1..(k - 1) : C13_Candidates(seenIds, order[j]) = {}]

\* C13 (SpecSession): in the quiz phase with score s < 100 and a non-empty
\* quiz pool, the question returned is, for a target tier that is easy when
\* s < 50, hard when s >= 90 and medium or hard otherwise, a candidate of
\* the first tier in the target's fallback order that has a candidate at
\* the waterfall step that yields the result; at s < 50 it is easy whenever
\* a globally unseen easy question exists, at s >= 90 it is hard whenever a
\* globally unseen hard question exists.
C13_TierOfServed ==
    (/\ op = "getNextQuestion"
     /\ currentGuidingIndex >= Len(guidingQuestions)
     /\ score < 100
     /\ Len(quizQuestions) > 0)
    => /\ \E target \in C13_Targets(score) :
              served \in C13_Candidates(C13_YieldingSeenIds,
                            C13_FirstTier(C13_Order(target), C13_YieldingSeenIds))
       /\ (/\ score < 50
           /\ C13_Candidates(getGloballySeenQuestionIds, "easy") # {})
          => served.difficulty = "easy"
       /\ (/\ score >= 90
           /\ C13_Candidates(getGloballySeenQuestionIds, "hard") # {})
          => served.difficulty = "hard"

\* At a score of 90 or more the globally unseen hard question is served
\* although a globally unseen easy, approved question exists.
C13_Witness ==
    /\ op = "getNextQuestion"
    /\ currentGuidingIndex >= Len(guidingQuestions)
    /\ score >= 90
    /\ score < 100
    /\ \E q \in C13_Candidates(getGloballySeenQuestionIds, "easy") :
           q.humanApproved
    /\ served \in C13_Candidates(getGloballySeenQuestionIds, "hard")

\* C14 (Spec): for each of the three tiers, and so for every target tier
\* the engine draws, getFallbackDifficulties(primary) is a list of exactly
\* the three tiers, without repetition, that starts with primary:
\* easy -> easy, medium, hard; medium -> medium, hard, easy;
\* hard -> hard, medium, easy.
C14_FallbackOrder ==
    \A primary \in getTargetDifficulty \cup {"easy", "medium", "hard"} :
        LET order == getFallbackDifficulties(primary)
        IN /\ Len(order) = 3
           /\ {order[i] : i \in 1..Len(order)} = {"easy", "medium", "hard"}
           /\ \A i, j \in 1..Len(order) : order[i] = order[j] => i = j
           /\ order[1] = primary
           /\ primary = "easy" => order = <<"easy", "medium", "hard">>
           /\ primary = "medium" => order = <<"medium", "hard", "easy">>
           /\ primary = "hard" => order = <<"hard", "medium", "easy">>

\* The order is used: below score 50 the pool has no easy question and the
\* second tier of the order for easy is served.
C14_Witness ==
    /\ op = "getNextQuestion"
    /\ currentGuidingIndex >= Len(guidingQuestions)
    /\ score < 50
    /\ served # NoQuestion
    /\ served.difficulty = getFallbackDifficulties("easy")[2]

\* C15 (SpecSession): in the quiz phase every question served while the
\* score is in 0..49 is an easy question, and every question served while
\* the score is in 90..99 is a hard question.
C15_EasyOnlyHardOnly ==
    (/\ op = "getNextQuestion"
     /\ currentGuidingIndex >= Len(guidingQuestions)
     /\ served # NoQuestion)
    => /\ score \in 0..49 => served.difficulty = "easy"
       /\ score \in 90..99 => served.difficulty = "hard"

\* C16 (Spec): approval ordering.  Whenever the candidate set the waterfall
\* settles on (one tier at one step) holds a human-approved question, the
\* question getNextQuestion returns is human-approved, whatever the
\* shuffles do; a question that is not approved is returned only from a
\* candidate set without an approved question.
C16_ApprovedFirst ==
    (/\ op = "getNextQuestion"
     /\ currentGuidingIndex >= Len(guidingQuestions)
     /\ score < 100
     /\ Len(quizQuestions) > 0)
    => \E target \in C13_Targets(score) :
           LET chosen == C13_Candidates(C13_YieldingSeenIds,
                             C13_FirstTier(C13_Order(target), C13_YieldingSeenIds))
           IN /\ served \in chosen
              /\ (\E q \in chosen : q.humanApproved = TRUE)
                     => served.humanApproved = TRUE
              /\ served.humanApproved # TRUE
                     => \A q \in chosen : q.humanApproved # TRUE

\* The approved question of a tier is served while a question of the same
\* tier that is not approved is a candidate too.
C16_Witness ==
    /\ op = "getNextQuestion"
    /\ currentGuidingIndex >= Len(guidingQuestions)
    /\ served # NoQuestion
    /\ served.humanApproved = TRUE
    /\ \E q \in C13_Candidates(C13_YieldingSeenIds, served.difficulty) :
           q.humanApproved # TRUE

\* C17 (Spec): every recordAnswer(questionId, wasCorrect) call increments
\* questionsAnswered by exactly 1, increments correctAnswers by 1 if
\* wasCorrect and by 0 otherwise, and appends exactly one entry
\* {questionId, wasCorrect, attemptNumber = the current attempt number} to
\* the end of both the global history and the attempt history, leaving all
\* earlier entries of both unchanged.
C17_RecordAnswerEffect ==
    [][op' = "recordAnswer" =>
          LET entry == [questionId |-> questionId',
                        wasCorrect |-> wasCorrect',
                        attemptNumber |-> currentAttempt]
              n == Len(allQuestionHistory)
              m == Len(currentAttemptHistory)
          IN /\ questionsAnswered' = questionsAnswered + 1
             /\ correctAnswers' = correctAnswers + (IF wasCorrect' THEN 1 ELSE 0)
             /\ Len(allQuestionHistory') = n + 1
             /\ allQuestionHistory'[n + 1] = entry
             /\ SubSeq(allQuestionHistory', 1, n) = allQuestionHistory
             /\ Len(currentAttemptHistory') = m + 1
             /\ currentAttemptHistory'[m + 1] = entry
             /\ SubSeq(currentAttemptHistory', 1, m) = currentAttemptHistory
             /\ currentAttempt' = currentAttempt]_vars

\* A correct answer recorded in attempt 2, after an answer of attempt 1.
C17_Witness ==
    /\ op = "recordAnswer"
    /\ wasCorrect
    /\ currentAttempt = 2
    /\ Len(currentAttemptHistory) = 1
    /\ Len(allQuestionHistory) = 2
    /\ allQuestionHistory[1].attemptNumber = 1
    /\ allQuestionHistory[2] =
           [questionId |-> questionId, wasCorrect |-> TRUE, attemptNumber |-> 2]

\* C18 (Spec): in every reachable state 0 <= correctAnswers <=
\* questionsAnswered, questionsAnswered is the length of the current
\* attempt's history and correctAnswers the number of its entries with
\* wasCorrect = true; no operation but a reset leaves questionsAnswered
\* lower than it found it.
C18_CounterInvariants ==
    /\ 0 <= correctAnswers
    /\ correctAnswers <= questionsAnswered
    /\ questionsAnswered = Len(currentAttemptHistory)
    /\ correctAnswers =
           Cardinality({i \in 1..Len(currentAttemptHistory) :
                            currentAttemptHistory[i].wasCorrect = TRUE})
    /\ op \notin {"resetAttempt", "fullReset"} =>
           questionsAnswered >= before.questionsAnswered

\* In attempt 2, after a reset that followed correct answers, one incorrect
\* answer has been recorded.
C18_Witness ==
    /\ op = "recordAnswer"
    /\ currentAttempt = 2
    /\ Len(allQuestionHistory) > Len(currentAttemptHistory)
    /\ \E i \in 1..Len(allQuestionHistory) :
           /\ allQuestionHistory[i].attemptNumber = 1
           /\ allQuestionHistory[i].wasCorrect
    /\ questionsAnswered = 1
    /\ correctAnswers = 0

\* C19 (SpecSession): resetAttempt sets score, questionsAnswered,
\* correctAnswers and the guiding cursor to 0, empties the attempt history
\* and increases the attempt number by exactly 1, and leaves the global
\* history (content and order) and both pools unchanged; called at score
\* 100 in attempt 1 it leaves score 0 and attempt number 2.
C19_ResetAttemptEffect ==
    [][op' = "resetAttempt" =>
          /\ score' = 0
          /\ questionsAnswered' = 0
          /\ correctAnswers' = 0
          /\ currentGuidingIndex' = 0
          /\ currentAttemptHistory' = <<>>
          /\ currentAttempt' = currentAttempt + 1
          /\ allQuestionHistory' = allQuestionHistory
          /\ guidingQuestions' = guidingQuestions
          /\ quizQuestions' = quizQuestions
          /\ (score = 100 /\ currentAttempt = 1) =>
                 (score' = 0 /\ currentAttempt' = 2)]_vars

\* resetAttempt was called at score 100 in attempt 1, over non-empty pools,
\* and the answers of attempt 1 are still in the global history.
C19_Witness ==
    /\ op = "resetAttempt"
    /\ before.score = 100
    /\ before.currentAttempt = 1
    /\ score = 0
    /\ currentAttempt = 2
    /\ currentAttemptHistory = <<>>
    /\ Len(allQuestionHistory) = before.questionsAnswered
    /\ before.questionsAnswered > 0
    /\ Len(guidingQuestions) > 0
    /\ Len(quizQuestions) > 0

\* C20 (Spec): whatever state fullReset is called in, it leaves the state
\* of a freshly constructed engine over the same pools: score 0,
\* questionsAnswered 0, correctAnswers 0, guiding cursor 0, attempt number
\* 1, both histories empty.  So every quiz question, answered before or
\* not, is again a candidate of the first waterfall step, and a second
\* fullReset leaves the same state as the first.
C20_FullResetIsFresh ==
    op = "fullReset" =>
        /\ score = 0
        /\ questionsAnswered = 0
        /\ correctAnswers = 0
        /\ currentGuidingIndex = 0
        /\ currentAttempt = 1
        /\ allQuestionHistory = <<>>
        /\ currentAttemptHistory = <<>>
        /\ filterUnseenQuestions(quizQuestions, getGloballySeenQuestionIds)
               = quizQuestions
        /\ \A i \in 1..Len(quizQuestions) :
               quizQuestions[i] \in
                   C13_Candidates(getGloballySeenQuestionIds,
                                  quizQuestions[i].difficulty)

\* fullReset was called in attempt 2 with answers recorded and a positive
\* score, over a non-empty quiz pool.
C20_Witness ==
    /\ op = "fullReset"
    /\ before.currentAttempt = 2
    /\ before.questionsAnswered > 0
    /\ before.score > 0
    /\ Len(quizQuestions) > 0
    /\ currentAttempt = 1
    /\ allQuestionHistory = <<>>

\* C21 (Spec): the phase is a function of the guiding cursor only:
\* getCurrentPhase() and, wherever getState() is called, its currentPhase
\* are "guiding" exactly when the cursor is below the length of the guiding
\* pool, "quiz" otherwise.
\* Right after construction, resetAttempt or fullReset the phase is guiding
\* if the guiding pool is non-empty (and the first guiding question is the
\* one served next) and quiz if it is empty; with an empty guiding pool the
\* phase is quiz in every reachable state.
C21_PhaseFromCursor ==
    /\ getCurrentPhase = "guiding" <=>
           currentGuidingIndex < Len(guidingQuestions)
    /\ getCurrentPhase = "quiz" <=>
           ~(currentGuidingIndex < Len(guidingQuestions))
    /\ op = "getState" => getState.currentPhase = getCurrentPhase
    /\ op \in {"constructor", "resetAttempt", "fullReset"} =>
           /\ Len(guidingQuestions) > 0 =>
                  /\ getCurrentPhase = "guiding"
                  /\ getNextQuestion = {guidingQuestions[1]}
           /\ Len(guidingQuestions) = 0 => getCurrentPhase = "quiz"
    /\ Len(guidingQuestions) = 0 => getCurrentPhase = "quiz"

\* resetAttempt was called in the quiz phase, after every guiding question
\* had been answered, and the phase is guiding again.
C21_Witness ==
    /\ op = "resetAttempt"
    /\ Len(guidingQuestions) > 0
    /\ before.currentGuidingIndex = Len(guidingQuestions)
    /\ getCurrentPhase = "guiding"

\* C22 (Spec): with an observer registered, each call of recordAnswer,
\* resetAttempt and fullReset calls it exactly once, within the call and
\* after the call's state changes: the engine it takes the snapshot from
\* is in the state the call leaves, so the snapshot's score,
\* questionsAnswered, accuracy and isComplete are those of that state.  getNextQuestion, getState, getStats, isComplete,
\* getCurrentPhase and getQuestionCounts never call the observer.
C22_ObserverNotified ==
    onStatsUpdate # NoObserver =>
        /\ op \in {"recordAnswer", "resetAttempt", "fullReset"} =>
               /\ Len(notified) = 1
               /\ notified[1] = counters
        /\ op \in {"getNextQuestion", "getState", "getStats", "isComplete",
                   "getCurrentPhase", "getQuestionCounts"} =>
               notified = <<>>

\* A registered observer has been handed the stats left by a correct
\* answer that followed an incorrect one.
C22_Witness ==
    /\ onStatsUpdate = ReturningObserver
    /\ op = "recordAnswer"
    /\ wasCorrect
    /\ questionsAnswered = 2
    /\ notified = <<counters>>
    /\ getStats = [score |-> score, questionsAnswered |-> 2,
                   accuracy |-> 50, isComplete |-> FALSE]
    /\ score > before.score

\* C23 (Spec): if the registered observer raises while recordAnswer
\* notifies it, the failure is isolated: the engine is left in the fully
\* updated state (score, counters, cursor, both histories), and
\* recordAnswer returns its delta to the caller instead of propagating the
\* failure.
C23_ObserverFailureIsolated ==
    (op = "recordAnswer" /\ onStatsUpdate = RaisingObserver) =>
        /\ questionsAnswered = before.questionsAnswered + 1
        /\ correctAnswers =
               before.correctAnswers + (IF wasCorrect THEN 1 ELSE 0)
        /\ score = IF wasCorrect
                   THEN Min(100, before.score + calculateIncrement(before.score))
                   ELSE Max(0, before.score + calculateDecrement(before.score))
        /\ Len(currentAttemptHistory) = questionsAnswered
        /\ currentAttemptHistory[Len(currentAttemptHistory)].questionId = questionId
        /\ allQuestionHistory[Len(allQuestionHistory)].questionId = questionId
        /\ ~raised
        /\ scoreChange = IF wasCorrect
                         THEN calculateIncrement(before.score)
                         ELSE calculateDecrement(before.score)

\* C24 (Spec): recordAnswer is permissive.  Whatever the state and the id,
\* the id of the question served last or not, an id of a pool or not, the
\* call raises no error of its own and updates score, questionsAnswered,
\* correctAnswers and both histories as it does for the id of the guiding
\* question at the cursor; for any other id only the guiding cursor stays
\* where it was.
C24_RecordAnswerPermissive ==
    op = "recordAnswer" =>
        LET matching ==
                /\ before.currentGuidingIndex < Len(guidingQuestions)
                /\ guidingQuestions[before.currentGuidingIndex + 1].id = questionId
            entry == [questionId |-> questionId, wasCorrect |-> wasCorrect,
                      attemptNumber |-> currentAttempt]
        IN /\ onStatsUpdate # RaisingObserver => ~raised
           /\ questionsAnswered = before.questionsAnswered + 1
           /\ correctAnswers =
                  before.correctAnswers + (IF wasCorrect THEN 1 ELSE 0)
           /\ score = IF wasCorrect
                      THEN Min(100, before.score + calculateIncrement(before.score))
                      ELSE Max(0, before.score + calculateDecrement(before.score))
           /\ allQuestionHistory # <<>>
           /\ allQuestionHistory[Len(allQuestionHistory)] = entry
           /\ currentAttemptHistory # <<>>
           /\ currentAttemptHistory[Len(currentAttemptHistory)] = entry
           /\ currentGuidingIndex =
                  before.currentGuidingIndex + (IF matching THEN 1 ELSE 0)

\* In the guiding phase a correct answer is recorded for an id of no pool:
\* the score rises and the cursor stays.
C24_Witness ==
    /\ op = "recordAnswer"
    /\ questionId = NoPoolId
    /\ wasCorrect
    /\ ~raised
    /\ before.currentGuidingIndex < Len(guidingQuestions)
    /\ currentGuidingIndex = before.currentGuidingIndex
    /\ score > before.score
    /\ allQuestionHistory[Len(allQuestionHistory)].questionId = NoPoolId

\* The scores after 1..11 consecutive correct answers from score 0.
C25_Scores == <<14, 27, 39, 50, 59, 68, 76, 83, 89, 95, 100>>

\* C25 (SpecDeep): in an attempt, which starts at score 0, k correct
\* answers out of k leave the scores 14, 27, 39, 50, 59, 68, 76, 83, 89, 95,
\* 100 for k = 1..11 (over an empty guiding pool the phase is quiz
\* throughout), so an attempt without an incorrect answer is complete after
\* exactly 11 answers; no attempt is complete with fewer than 11 answers
\* recorded.
C25_PerfectRun ==
    /\ (correctAnswers = questionsAnswered /\ questionsAnswered \in 1..11) =>
           score = C25_Scores[questionsAnswered]
    /\ (correctAnswers = questionsAnswered /\ questionsAnswered < 11) =>
           ~isComplete
    /\ (correctAnswers = questionsAnswered /\ questionsAnswered >= 11) =>
           isComplete
    /\ isComplete => questionsAnswered >= 11
    /\ Len(guidingQuestions) = 0 => getCurrentPhase = "quiz"

\* Over an empty guiding pool, the eleventh correct answer out of eleven
\* takes the score from 95 to 100 and completes the attempt.
C25_Witness ==
    /\ op = "recordAnswer"
    /\ Len(guidingQuestions) = 0
    /\ getCurrentPhase = "quiz"
    /\ questionsAnswered = 11
    /\ correctAnswers = 11
    /\ before.score = 95
    /\ score = 100
    /\ isComplete
    /\ \A i \in 1..11 : currentAttemptHistory[i].wasCorrect

\* C26 (Spec): only recordAnswer, resetAttempt and fullReset change the
\* engine's state: getNextQuestion (in either phase, shuffles included),
\* getState, getStats, isComplete, getCurrentPhase and getQuestionCounts
\* leave score, counters, cursor, attempt number and both histories as they
\* were, and no operation changes the content or the order of the guiding
\* pool or of the quiz pool.
C26_OnlyWritesMutate ==
    [][/\ op' \in {"getNextQuestion", "getState", "getStats", "isComplete",
                   "getCurrentPhase", "getQuestionCounts"} =>
              /\ score' = score
              /\ questionsAnswered' = questionsAnswered
              /\ correctAnswers' = correctAnswers
              /\ currentGuidingIndex' = currentGuidingIndex
              /\ currentAttempt' = currentAttempt
              /\ allQuestionHistory' = allQuestionHistory
              /\ currentAttemptHistory' = currentAttemptHistory
       /\ guidingQuestions' = guidingQuestions
       /\ quizQuestions' = quizQuestions]_vars

\* getNextQuestion has served a quiz question, over a pool of several, in
\* attempt 2 with answers recorded in both attempts.
C26_Witness ==
    /\ op = "getNextQuestion"
    /\ served.id \in QuizIds
    /\ Len(quizQuestions) > 1
    /\ currentAttempt = 2
    /\ currentAttemptHistory # <<>>
    /\ Len(allQuestionHistory) > Len(currentAttemptHistory)
    /\ before = counters

\* C27 (Spec): the attempt number is 1 after construction and at least 1 in
\* every reachable state; recordAnswer and every read leave it as it was,
\* each resetAttempt increases it by exactly 1, fullReset sets it to 1.
C27_AttemptNumber ==
    /\ currentAttempt >= 1
    /\ op = "constructor" => currentAttempt = 1
    /\ op \in {"recordAnswer", "getNextQuestion", "getState", "getStats",
               "isComplete", "getCurrentPhase", "getQuestionCounts"} =>
           currentAttempt = before.currentAttempt
    /\ op = "resetAttempt" => currentAttempt = before.currentAttempt + 1
    /\ op = "fullReset" => currentAttempt = 1

\* fullReset was called right after a resetAttempt had opened attempt 2.
C27_Witness ==
    /\ op = "fullReset"
    /\ before.currentAttempt = 2
    /\ before.questionsAnswered = 0
    /\ currentAttempt = 1

\* C28 (SpecLong): the accuracy reported is 0 when questionsAnswered = 0
\* and otherwise round(100 * correctAnswers / questionsAnswered), half
\* rounded up; it is an integer in 0..100 and the same in getState() and
\* getStats().
C28_Accuracy ==
    op \in {"getState", "getStats"} =>
        /\ getState.accuracy =
               IF questionsAnswered = 0
               THEN 0
               ELSE (200 * correctAnswers + questionsAnswered)
                        \div (2 * questionsAnswered)
        /\ getState.accuracy \in 0..100
        /\ getStats.accuracy = getState.accuracy

\* The number of the questions handed over that the engine stores under a
\* tier.
C29_Handed(tier) ==
    LET handed == IF memo.format = "game"
                  THEN convertQuestionsToPowerPath(memo.questions)
                  ELSE memo.questions
        stored == normalizeQuizQuestions(handed)
    IN Cardinality({i \in 1..Len(stored) : stored[i].difficulty = tier})

\* C29 (SpecPools): getQuestionCounts counts the quiz pool only: for every
\* pool handed to the constructor, easy + medium + hard = total = the length
\* of the quiz pool, every stored quiz question has a tier in
\* {easy, medium, hard}, and the counts are in every reachable state those
\* of the pool handed over.
C29_QuestionCounts ==
    LET counts == getQuestionCounts
    IN /\ counts.easy + counts.medium + counts.hard = counts.total
       /\ counts.total = Len(quizQuestions)
       /\ counts.total = Len(memo.questions)
       /\ \A i \in 1..Len(quizQuestions) :
             quizQuestions[i].difficulty \in Difficulty
       /\ counts = [easy |-> C29_Handed("easy"),
                    medium |-> C29_Handed("medium"),
                    hard |-> C29_Handed("hard"),
                    total |-> Len(memo.questions)]

\* getQuestionCounts is called after an answer to the guiding question, on
\* a pool of one easy and one medium question.
C29_Witness ==
    /\ op = "getQuestionCounts"
    /\ currentGuidingIndex = 1
    /\ questionsAnswered = 1
    /\ Len(guidingQuestions) = 1
    /\ getQuestionCounts = [easy |-> 1, medium |-> 1, hard |-> 0, total |-> 2]

\* The tier of a descriptor: "easy" or "low" in any case is easy; "hard",
\* "high" or "difficult" in any case is hard; anything else is medium.
C30_Tier(descriptor) ==
    IF descriptor \in {"easy", "Easy", "low", "LOW"} THEN "easy"
    ELSE IF descriptor \in {"hard", "Hard", "high", "HIGH",
                            "difficult", "Difficult"} THEN "hard"
    ELSE "medium"

\* C30 (SpecPools): the stored tier of each quiz question is the tier of its
\* metadata descriptor when it has one, else the tier of its pre-set tier;
\* deriving the tier again from the derived tier changes nothing; a question
\* converted by convertToPowerPathQuestion and then handed to the
\* constructor is stored under the tier of its metadata descriptor.
C30_TierMapping ==
    /\ Len(quizQuestions) = Len(memo.questions)
    /\ \A i \in 1..Len(quizQuestions) :
          LET given == memo.questions[i]
              stored == quizQuestions[i].difficulty
          IN /\ memo.format = "powerpath" =>
                    stored = C30_Tier(IF given.metaDifficulty # ""
                                      THEN given.metaDifficulty
                                      ELSE given.difficulty)
             /\ memo.format = "game" =>
                    stored = C30_Tier(given.metaDifficulty)
             /\ parseDifficulty(stored) = stored
    /\ normalizeQuizQuestions(quizQuestions) = quizQuestions

\* Two questions of the game, one "Difficult" and one without a descriptor,
\* were converted and handed over; they are stored as hard and medium.
C30_Witness ==
    /\ memo.format = "game"
    /\ Len(memo.questions) = 2
    /\ memo.questions[1].metaDifficulty = "Difficult"
    /\ memo.questions[2].metaDifficulty = ""
    /\ quizQuestions[1].difficulty = "hard"
    /\ quizQuestions[2].difficulty = "medium"
    /\ op = "fullReset"

\* C31 (SpecDeep): over the scores 0..100 the increment for a correct answer
\* never grows with the score, from 14 at score 0 down to 4 at score 100,
\* and the magnitude of the penalty for an incorrect answer never shrinks
\* with the score, from 1 below score 20 up to 8 from score 90; the change
\* recordAnswer applies is the one of the score it found.
C31_Monotone ==
    /\ score \in 0..100
    /\ \A higher \in score..100 :
          /\ calculateIncrement(higher) <= calculateIncrement(score)
          /\ -calculateDecrement(higher) >= -calculateDecrement(score)
          /\ calculateIncrement(higher) \in 4..14
          /\ -calculateDecrement(higher) \in 1..8
    /\ score = 0 => calculateIncrement(score) = 14
    /\ score = 100 => calculateIncrement(score) = 4
    /\ score < 20 => calculateDecrement(score) = -1
    /\ score >= 90 => calculateDecrement(score) = -8
    /\ op = "recordAnswer" =>
          scoreChange = IF wasCorrect
                        THEN calculateIncrement(before.score)
                        ELSE calculateDecrement(before.score)

\* An incorrect answer at a score of 90 or more has cost 8 points, after a
\* correct answer earlier in the attempt.
C31_Witness ==
    /\ op = "recordAnswer"
    /\ ~wasCorrect
    /\ before.score >= 90
    /\ scoreChange = -8
    /\ score = before.score - 8
    /\ correctAnswers > 0

\* C32 (Spec): in every reachable state the history of the current attempt
\* is a suffix of the global history, each of its entries carries the
\* current attempt number, and the attempt numbers along the global history
\* never decrease and never exceed the current attempt number.
C32_HistoryShape ==
    LET all == Len(allQuestionHistory)
        own == Len(currentAttemptHistory)
    IN /\ own <= all
       /\ \A i \in 1..own :
             currentAttemptHistory[i] = allQuestionHistory[all - own + i]
       /\ \A i \in 1..own :
             currentAttemptHistory[i].attemptNumber = currentAttempt
       /\ \A i \in 1..all :
             allQuestionHistory[i].attemptNumber \in 1..currentAttempt
       /\ \A i, j \in 1..all :
             i <= j => allQuestionHistory[i].attemptNumber
                           <= allQuestionHistory[j].attemptNumber

\* In attempt 2 the global history holds two answers of attempt 1 and one of
\* attempt 2, which alone is the history of the current attempt.
C32_Witness ==
    /\ op = "recordAnswer"
    /\ currentAttempt = 2
    /\ Len(allQuestionHistory) = 3
    /\ allQuestionHistory[1].attemptNumber = 1
    /\ allQuestionHistory[2].attemptNumber = 1
    /\ allQuestionHistory[3].attemptNumber = 2
    /\ currentAttemptHistory = <<allQuestionHistory[3]>>

\* C33 (SpecWaterfall): in the selection waterfall exposure comes before
\* tier and tier before approval: a question already answered is returned
\* only when no quiz question of any tier is globally unseen, so a globally
\* unseen question of a fallback tier is returned rather than an answered
\* one of the target tier; and for a target tier the score allows, no tier
\* before the tier of the question returned has a candidate at the step
\* that yields it, approved or not, so a non-approved question of an earlier
\* tier is returned rather than an approved one of a later tier.
C33_Precedence ==
    (/\ op = "getNextQuestion"
     /\ currentGuidingIndex >= Len(guidingQuestions)
     /\ score < 100
     /\ served # NoQuestion)
    => /\ served.id \in getGloballySeenQuestionIds =>
              \A tier \in Difficulty :
                  C13_Candidates(getGloballySeenQuestionIds, tier) = {}
       /\ \E target \in C13_Targets(score) :
              LET order == C13_Order(target)
              IN \E k \in 1..Len(order) :
                    /\ order[k] = served.difficulty
                    /\ served \in C13_Candidates(C13_YieldingSeenIds, order[k])
                    /\ \A j \in 1..(k - 1) :
                          C13_Candidates(C13_YieldingSeenIds, order[j]) = {}

\* Below score 50 the easy question has been answered; the medium question,
\* globally unseen and not approved, is returned rather than the answered
\* easy one and rather than the approved, globally unseen hard one.
C33_Witness ==
    /\ op = "getNextQuestion"
    /\ score < 50
    /\ getGloballySeenQuestionIds = {"q2"}
    /\ C13_Candidates({}, "easy") = {Q2}
    /\ served = Q4
    /\ ~served.humanApproved
    /\ Q7 \in C13_Candidates(getGloballySeenQuestionIds, "hard")
    /\ Q7.humanApproved

\* C34 (SpecSession): completion is absorbing for the caller that records
\* an answer only for the question getNextQuestion just returned: from a
\* state with score 100, every step that is not resetAttempt or fullReset
\* is a getNextQuestion that returns none, records no answer and leaves the
\* score at 100 and isComplete() true.
C34_CompletionAbsorbing ==
    [][(score = 100 /\ op' \notin {"resetAttempt", "fullReset"})
        => /\ op' = "getNextQuestion"
           /\ served' = NoQuestion
           /\ score' = 100
           /\ isComplete'
           /\ questionsAnswered' = questionsAnswered
           /\ allQuestionHistory' = allQuestionHistory
           /\ currentAttemptHistory' = currentAttemptHistory]_vars

\* getNextQuestion has returned none at score 100, over a non-empty quiz
\* pool, in a state that was complete before the call.
C34_Witness ==
    /\ op = "getNextQuestion"
    /\ served = NoQuestion
    /\ score = 100
    /\ before.score = 100
    /\ isComplete
    /\ Len(quizQuestions) > 0
    /\ questionsAnswered >= 11

\* The number of correct answers at the end of the current attempt's
\* history.
C35_Streak ==
    LET n == Len(currentAttemptHistory)
    IN CHOOSE k \in 0..n :
          /\ \A i \in (n - k + 1)..n : currentAttemptHistory[i].wasCorrect
          /\ k = n \/ ~currentAttemptHistory[n - k].wasCorrect

\* C35 (SpecLive): over a non-empty quiz pool the caller that keeps taking
\* the question from getNextQuestion and recording an answer for it is
\* never returned none before completion; a correct answer below score 100
\* raises the score; no incomplete attempt ends with 11 correct answers;
\* and once every further answer is correct, isComplete() eventually holds.
C35_NeverStuck ==
    /\ [](/\ Len(quizQuestions) > 0
          /\ (op = "getNextQuestion" /\ score < 100) => served # NoQuestion
          /\ (op = "recordAnswer" /\ wasCorrect) => score > before.score
          /\ ~isComplete => C35_Streak <= 10)
    /\ <>isComplete

\* The attempt is complete after four answers of which the last was
\* incorrect and then a run of at most 11 correct answers.
C35_Witness ==
    /\ op = "recordAnswer"
    /\ isComplete
    /\ Len(quizQuestions) > 0
    /\ questionsAnswered = 4 + C35_Streak
    /\ C35_Streak \in 1..11
    /\ ~currentAttemptHistory[4].wasCorrect

\* The ids of the guiding pool.
C36_GuidingIds == {guidingQuestions[i].id : i \in 1..Len(guidingQuestions)}

C37_RecordedOnce ==
    memo.screen = "reading" =>
        /\ questionsAnswered - memo.answeredAtLoad <= 1
        /\ op = "recordAnswer" =>
               questionId = memo.currentPowerPathQuestion.id

====
